---- MODULE Spec2Model ----
(***************************************************************************)
(* The storefront frontend.  The shared API client (frontend/src/lib/api):  *)
(* the token storage, the request builders, the timeout guard, the         *)
(* response normalisation, the auth service and the product-list           *)
(* normaliser.  The pages (frontend/src/pages): the Marketplace with its   *)
(* product list, filters, pagination, delete confirmation and chat popup,  *)
(* the Create Product form and the AI Assistant page; and the route table  *)
(* of the application shell.                                               *)
(***************************************************************************)
EXTENDS Integers, Sequences, FiniteSets, Bags, TLC

VARIABLES
    token,          \* localStorage['token']
    refresh_token,  \* localStorage['refresh_token']
    inflight,       \* the client calls whose promise has not settled (a bag)
    observed,       \* the last thing seen from outside: a request put on the wire
                    \* or a promise settled towards its caller
    issued,         \* history: access_token of the last auth response that had one,
                    \* Null again once a logout has completed
    listInput,      \* getProducts: the body apiClient.get returned to it
    listOutput,     \* getProducts: the ProductListResponse it returned
    listStage,      \* getProducts: "response", "normalized", or "renormalized"
                    \* once its own result has been fed to it again
    \* Marketplace: the useState cells of the component
    selectedCategory, selectedBrand, priceRange, searchQuery,
    currentPage, totalPages, products, loadingProducts, deleteConfirmId,
    marketCalls,    \* product-service calls not settled yet, in the order issued,
                    \* each with the values its closure captured
    marketEvent,    \* the last handler or continuation that ran, with the
                    \* product-service calls it issued
    \* Marketplace chat popup: the useState cells of the component
    chatOpen, selectedProductForChat, chatMessages, chatInput, chatLoading,
    conversationId,
    chatCalls,      \* aiService.sendMessage calls not settled yet, each with the
                    \* conversationId its closure captured
    chatEvent,      \* the last chat handler or continuation that ran
    \* Create Product page: the useState cells of the component
    loading, loadingCategories, categories, images, imagePreviews, formData,
    previewReads,   \* FileReader reads not finished yet (a bag of files)
    createCalls,    \* calls of the page not settled yet: the category load and
                    \* the product creations
    navigated,      \* navigate('/marketplace') has been called
    createEvent,    \* the last handler or continuation of the page that ran
    \* Application shell: the router
    location,       \* the path of the URL, as its segments
    mounted,        \* the page element the router has mounted for it
    \* AI Assistant page: the useState cells of the component
    messages, inputValue, isLoading, isListening, uploadedImage,
    assistantCalls, \* requests of the page not settled yet
    recognitions,   \* speech-recognition sessions started and not ended yet
    assistantEvent  \* the last handler or continuation of the page that ran

clientVars == <<token, refresh_token, inflight, observed, issued>>
listVars == <<listInput, listOutput, listStage>>
filterVars == <<selectedCategory, selectedBrand, priceRange, searchQuery>>
marketVars == <<filterVars, currentPage, totalPages, products, loadingProducts,
                deleteConfirmId, marketCalls, marketEvent>>
chatVars == <<chatOpen, selectedProductForChat, chatMessages, chatInput, chatLoading,
              conversationId, chatCalls, chatEvent>>
imageVars == <<images, imagePreviews, previewReads>>
createVars == <<loading, loadingCategories, categories, imageVars, formData,
                createCalls, navigated, createEvent>>
routeVars == <<location, mounted>>
assistantVars == <<messages, inputValue, isLoading, isListening, uploadedImage,
                   assistantCalls, recognitions, assistantEvent>>
vars == <<clientVars, listVars, marketVars, chatVars, createVars, routeVars, assistantVars>>

\* What the actions of one part leave alone: the variables of the other parts.
nonClientVars == <<listVars, marketVars, chatVars, createVars, routeVars, assistantVars>>
nonListVars == <<clientVars, marketVars, chatVars, createVars, routeVars, assistantVars>>
nonMarketVars == <<clientVars, listVars, chatVars, createVars, routeVars, assistantVars>>
nonChatVars == <<clientVars, listVars, marketVars, createVars, routeVars, assistantVars>>
nonCreateVars == <<clientVars, listVars, marketVars, chatVars, routeVars, assistantVars>>
nonRouteVars == <<clientVars, listVars, marketVars, chatVars, createVars, assistantVars>>
nonAssistantVars == <<clientVars, listVars, marketVars, chatVars, createVars, routeVars>>

(***************************************************************************)
(* Bounds of the model.                                                    *)
(***************************************************************************)
MaxInFlight == 2      \* calls in flight at the same time
TickMs == 15000       \* granularity of the clock, in milliseconds

(***************************************************************************)
(* Values.  Undefined stands for a JSON field that is missing or holds a   *)
(* value JavaScript treats as false (undefined, null, the empty string);   *)
(* Null is what localStorage.getItem returns for a missing key.            *)
(***************************************************************************)
Undefined == "undefined"
Null == "null"
NoHeader == "absent"

AccessTokens == {"t1", "t2"}
RefreshTokens == {"r1", "r2"}

TIMEOUT == 30000

\* JSON values the backend can answer with: an object with some of the
\* fields the client looks at, or a body that does not parse as JSON.
NotJson == [kind |-> "not-json"]
NoData == [kind |-> "undefined"]
Obj(d, m, a, r) ==
    [kind |-> "object", detail |-> d, message |-> m, access_token |-> a, refresh_token |-> r]
EmptyObject == Obj(Undefined, Undefined, Undefined, Undefined)

ErrorBodies ==
    {NotJson} \cup {Obj(d, m, Undefined, Undefined) :
                        d \in {Undefined, "Invalid credentials"},
                        m \in {Undefined, "Bad request"}}
\* What /auth/login, /auth/register and /auth/refresh answer with ...
AuthBodies ==
    {NotJson} \cup {Obj(Undefined, Undefined, a, r) :
                        a \in AccessTokens \cup {Undefined},
                        r \in RefreshTokens \cup {Undefined}}
\* ... and the other endpoints: some JSON object.
PlainBodies == {NotJson, EmptyObject}

OkStatuses == {200, 204}
ErrorStatuses == {401, 500}
Statuses == OkStatuses \cup ErrorStatuses
Bodies(service, status) ==
    IF status \in ErrorStatuses THEN ErrorBodies
    ELSE IF service \in {"login", "register", "refreshToken"} THEN AuthBodies
    ELSE PlainBodies

statusText(status) ==
    CASE status = 200 -> "OK"
      [] status = 204 -> "No Content"
      [] status = 401 -> "Unauthorized"
      [] status = 500 -> "Internal Server Error"

\* Headers a caller may pass in options.headers.
CallerHeaders ==
    { [ct |-> NoHeader, auth |-> NoHeader],
      [ct |-> "text/plain", auth |-> NoHeader],
      [ct |-> NoHeader, auth |-> "Basic abc"] }
NoHeaders == [ct |-> NoHeader, auth |-> NoHeader]

\* JavaScript's a || b on the values above.
Truthy(v) == v # Undefined /\ v # Null
OrElse(a, b) == IF Truthy(a) THEN a ELSE b

(***************************************************************************)
(* client.ts                                                               *)
(***************************************************************************)
authToken_get == token

Bearer(t) == "Bearer " \o t

\* buildHeaders without its token branch.
buildHeaders_noToken(customHeaders) ==
    [ct   |-> IF customHeaders.ct = NoHeader THEN "application/json" ELSE customHeaders.ct,
     auth |-> customHeaders.auth]

buildHeaders(customHeaders) ==
    [ct   |-> IF customHeaders.ct = NoHeader THEN "application/json" ELSE customHeaders.ct,
     auth |-> IF Truthy(authToken_get) /\ customHeaders.auth = NoHeader
                  THEN Bearer(authToken_get)
                  ELSE customHeaders.auth]

uploadHeaders(customHeaders) ==
    [ct   |-> NoHeader,
     auth |-> IF Truthy(authToken_get) THEN Bearer(authToken_get) ELSE customHeaders.auth]

\* What a promise settles with: a value, or a thrown error.
Value(v) == [kind |-> "value", status |-> 0, message |-> "", data |-> v]
ApiError(message, status, data) ==
    [kind |-> "ApiError", status |-> status, message |-> message, data |-> data]
TypeError(message) ==
    [kind |-> "TypeError", status |-> 0, message |-> message, data |-> NoData]
Error(message) ==
    [kind |-> "Error", status |-> 0, message |-> message, data |-> NoData]

response_ok(status) == status >= 200 /\ status <= 299

StatusLine(status) == "HTTP " \o ToString(status) \o ": " \o statusText(status)

\* handleResponse reading message before detail.
handleResponse_messageFirst(status, body) ==
    IF ~response_ok(status)
    THEN IF body = NotJson
         THEN ApiError(StatusLine(status), status, NoData)
         ELSE ApiError(OrElse(body.message, OrElse(body.detail, StatusLine(status))),
                       status, body)
    ELSE IF status = 204
         THEN Value(EmptyObject)
         ELSE IF body = NotJson THEN Value(EmptyObject) ELSE Value(body)

handleResponse(status, body) ==
    IF ~response_ok(status)
    THEN IF body = NotJson
         THEN ApiError(StatusLine(status), status, NoData)
         ELSE ApiError(OrElse(body.detail, OrElse(body.message, StatusLine(status))),
                       status, body)
    ELSE IF status = 204
         THEN Value(EmptyObject)
         ELSE IF body = NotJson THEN Value(EmptyObject) ELSE Value(body)

\* The catch block without its AbortError branch.
fetchRejected_rethrow(errorName) ==
    TypeError(IF errorName = "AbortError" THEN "The operation was aborted" ELSE "Failed to fetch")

\* The catch block of fetchWithTimeout.
fetchRejected(errorName) ==
    IF errorName = "AbortError"
    THEN ApiError("Request timeout", 408, NoData)
    ELSE TypeError("Failed to fetch")

(***************************************************************************)
(* Calls in flight.  Each holds the service method awaiting it ("none" for *)
(* a direct use of the client), where fetchWithTimeout/handleResponse      *)
(* stand ("fetch": awaiting fetch, timer armed; "body": fetch resolved,    *)
(* timer cleared, awaiting response.json()), the time its armed timer has  *)
(* run and, once fetch resolved, the HTTP status.                          *)
(***************************************************************************)
Call(service) == [service |-> service, phase |-> "fetch", elapsed |-> 0, status |-> 0]

Pending == BagToSet(inflight)
Started(c) == inflight (+) SetToBag({c})
Settled(c) == inflight (-) SetToBag({c})

\* What the network did to a call.
Responded(status, body) == [kind |-> "response", status |-> status, body |-> body]
NetworkFailed == [kind |-> "network-failure", status |-> 0, body |-> NoData]
TimedOut == [kind |-> "timeout", status |-> 0, body |-> NoData]
NotSent == [kind |-> "not-sent", status |-> 0, body |-> NoData]

\* fetchWithTimeout arms the timer and calls fetch: the request is on the wire.
Send(service, via, method, customHeaders, headers, body, posted) ==
    /\ BagCardinality(inflight) < MaxInFlight
    /\ inflight' = Started(Call(service))
    /\ observed' = [type |-> "request", service |-> service, via |-> via,
                    method |-> method, customHeaders |-> customHeaders,
                    headers |-> headers, body |-> body, posted |-> posted]
    /\ UNCHANGED <<token, refresh_token, issued, nonClientVars>>

get(customHeaders) ==
    Send("none", "get", "GET", customHeaders, buildHeaders(customHeaders),
         Undefined, Undefined)

post(customHeaders, data) ==
    Send("none", "post", "POST", customHeaders, buildHeaders(customHeaders),
         IF data THEN "json" ELSE Undefined, Undefined)

put(customHeaders, data) ==
    Send("none", "put", "PUT", customHeaders, buildHeaders(customHeaders),
         IF data THEN "json" ELSE Undefined, Undefined)

delete(customHeaders) ==
    Send("none", "delete", "DELETE", customHeaders, buildHeaders(customHeaders),
         Undefined, Undefined)

upload(customHeaders) ==
    Send("none", "upload", "POST", customHeaders, uploadHeaders(customHeaders),
         "FormData", Undefined)

(***************************************************************************)
(* auth.service.ts                                                         *)
(***************************************************************************)
isAuthenticated == Truthy(authToken_get)

login ==
    Send("login", "post", "POST", NoHeaders, buildHeaders(NoHeaders), "json", Undefined)

register ==
    Send("register", "post", "POST", NoHeaders, buildHeaders(NoHeaders), "json", Undefined)

logout ==
    Send("logout", "post", "POST", NoHeaders, buildHeaders(NoHeaders), Undefined, Undefined)

\* Storing whatever came back, a failure included.
storedAccess_clearOnFailure(result) ==
    IF result.kind = "value" /\ Truthy(result.data.access_token)
    THEN result.data.access_token
    ELSE Null

\* The tokens a login, register or refreshToken stores from what post returned.
storedAccess(result) ==
    IF result.kind = "value" /\ Truthy(result.data.access_token)
    THEN result.data.access_token
    ELSE token

storedRefresh(result) ==
    IF result.kind = "value" /\ Truthy(result.data.access_token)
                             /\ Truthy(result.data.refresh_token)
    THEN result.data.refresh_token
    ELSE refresh_token

\* logout clearing the token only when its request succeeded.
tokenAfter_noFinally(service, result) ==
    CASE service \in {"login", "register", "refreshToken"} -> storedAccess(result)
      [] service = "logout" -> IF result.kind = "value" THEN Null ELSE token
      [] OTHER -> token

\* The rest of a service method once the client call it awaits has settled
\* with `result`: the tokens it leaves in storage.
tokenAfter(service, result) ==
    CASE service \in {"login", "register", "refreshToken"} -> storedAccess(result)
      [] service = "logout" -> Null
      [] OTHER -> token

refreshAfter(service, result) ==
    CASE service \in {"login", "register", "refreshToken"} -> storedRefresh(result)
      [] service = "logout" -> Null
      [] OTHER -> refresh_token

\* ... and what it gives its own caller: logout swallows every error.
settledWith(service, result) ==
    IF service = "logout" THEN Value(NoData) ELSE result

\* History: the access token the last auth response carried.
issuedAfter(service, outcome) ==
    CASE service \in {"login", "register", "refreshToken"} ->
             IF /\ outcome.kind = "response"
                /\ outcome.status = 200
                /\ outcome.body # NotJson
                /\ Truthy(outcome.body.access_token)
             THEN outcome.body.access_token
             ELSE issued
      [] service = "logout" -> Null
      [] OTHER -> issued

Settle(c, outcome, result) ==
    LET service == c.service IN
    /\ token' = tokenAfter(service, result)
    /\ refresh_token' = refreshAfter(service, result)
    /\ issued' = issuedAfter(service, outcome)
    /\ inflight' = Settled(c)
    /\ observed' = [type |-> "settle", service |-> service, outcome |-> outcome,
                    result |-> settledWith(service, result)]
    /\ UNCHANGED nonClientVars

refreshToken ==
    IF ~Truthy(refresh_token)
    THEN /\ observed' = [type |-> "settle", service |-> "refreshToken",
                         outcome |-> NotSent,
                         result |-> Error("No refresh token available")]
         /\ UNCHANGED <<token, refresh_token, inflight, issued, nonClientVars>>
    ELSE Send("refreshToken", "post", "POST", NoHeaders, buildHeaders(NoHeaders),
              "json", refresh_token)

(***************************************************************************)
(* What happens to a call in flight (client.ts, fetchWithTimeout and       *)
(* handleResponse).                                                        *)
(***************************************************************************)
timerDue(c) == c.phase = "fetch" /\ c.elapsed >= TIMEOUT

\* Time passes; a timer that is due fires before time passes it.
later(c) == IF c.phase = "fetch" THEN [c EXCEPT !.elapsed = @ + TickMs] ELSE c

Tick ==
    /\ \E c \in Pending : c.phase = "fetch"
    /\ \A c \in Pending : ~timerDue(c)
    /\ inflight' = [d \in {later(c) : c \in Pending} |->
                       inflight[CHOOSE c \in Pending : later(c) = d]]
    /\ UNCHANGED <<token, refresh_token, observed, issued, nonClientVars>>

\* setTimeout's callback aborts the controller; fetch rejects with AbortError.
timerFires(c) ==
    /\ timerDue(c)
    /\ Settle(c, TimedOut, fetchRejected("AbortError"))

\* fetch rejects on its own: the network failed.
fetchFails(c) ==
    /\ c.phase = "fetch"
    /\ Settle(c, NetworkFailed, fetchRejected("TypeError"))

\* fetch resolves with a response other than 204: the timer is cleared and
\* handleResponse awaits the body.
fetchResolves(c, status) ==
    /\ c.phase = "fetch"
    /\ status # 204
    /\ inflight' = Settled(c) (+)
                       SetToBag({[c EXCEPT !.phase = "body", !.elapsed = 0,
                                           !.status = status]})
    /\ UNCHANGED <<token, refresh_token, observed, issued, nonClientVars>>

\* fetch resolves with 204: handleResponse returns without reading a body.
fetchResolvesEmpty(c) ==
    /\ c.phase = "fetch"
    /\ Settle(c, Responded(204, NotJson), handleResponse(204, NotJson))

\* response.json() resolves, or rejects for a body that is not JSON.
bodyRead(c, body) ==
    /\ c.phase = "body"
    /\ Settle(c, Responded(c.status, body), handleResponse(c.status, body))

(***************************************************************************)
(* The client and the auth service as a state machine.                     *)
(***************************************************************************)
NoEvent == [type |-> "none"]

ClientInit ==
    /\ token = Null
    /\ refresh_token = Null
    /\ inflight = EmptyBag
    /\ observed = NoEvent
    /\ issued = Null

ListIdle ==
    /\ listInput = NoData
    /\ listOutput = NoData
    /\ listStage = "idle"

\* The Marketplace once mounted: the useState initial values (MarketPlace.tsx
\* 143-159) and the mount effect's first product request (327-335).
NoFilters == [page |-> 1, limit |-> 12, status |-> Undefined, search |-> Undefined,
              category_id |-> Undefined, brand |-> Undefined,
              min_price |-> <<>>, max_price |-> <<>>]
loadInitialProducts == [op |-> "initial", origin |-> "mount", filters |-> NoFilters, overtaken |-> FALSE]

MarketInit ==
    /\ selectedCategory = ""
    /\ selectedBrand = ""
    /\ priceRange = ""
    /\ searchQuery = ""
    /\ currentPage = 1
    /\ totalPages = 1
    /\ products = <<>>
    /\ loadingProducts = TRUE
    /\ deleteConfirmId = Null
    /\ marketCalls = <<loadInitialProducts>>
    /\ marketEvent = [kind |-> "mounted", requests |-> <<loadInitialProducts>>]

\* The chat popup of the Marketplace once mounted (MarketPlace.tsx 153-158).
ChatInit ==
    /\ chatOpen = FALSE
    /\ selectedProductForChat = Null
    /\ chatMessages = <<>>
    /\ chatInput = ""
    /\ chatLoading = FALSE
    /\ conversationId = Null
    /\ chatCalls = <<>>
    /\ chatEvent = [kind |-> "mounted"]

\* The Create Product page once mounted: the useState initial values
\* (CreateProduct.tsx 28-48) and the mount effect's category request (51-55).
fetchCategories == [op |-> "categories"]

CreateInit ==
    /\ loading = FALSE
    /\ loadingCategories = TRUE
    /\ categories = <<>>
    /\ images = <<>>
    /\ imagePreviews = <<>>
    /\ previewReads = EmptyBag
    /\ formData = [name |-> "", price |-> "", quantity |-> "1"]
    /\ createCalls = <<fetchCategories>>
    /\ navigated = FALSE
    /\ createEvent = [kind |-> "mounted"]

\* The router on the landing path.
RouteInit ==
    /\ location = <<>>
    /\ mounted = "Index"

\* The AI Assistant page as mounted: the transcript holds the greeting.
Greeting == "Hello! I'm your AI assistant for luxury goods. How can I assist you today?"
Message(isUser, content, image) == [isUser |-> isUser, content |-> content, image |-> image]

AssistantInit ==
    /\ messages = << Message(FALSE, Greeting, Undefined) >>
    /\ inputValue = ""
    /\ isLoading = FALSE
    /\ isListening = FALSE
    /\ uploadedImage = Null
    /\ assistantCalls = <<>>
    /\ recognitions = <<>>
    /\ assistantEvent = [kind |-> "mounted"]

PagesInit == MarketInit /\ ChatInit /\ CreateInit /\ RouteInit /\ AssistantInit

Init == ClientInit /\ ListIdle /\ PagesInit

Next ==
    \/ \E h \in CallerHeaders : get(h)
    \/ \E h \in CallerHeaders, data \in BOOLEAN : post(h, data)
    \/ \E h \in CallerHeaders, data \in BOOLEAN : put(h, data)
    \/ \E h \in CallerHeaders : delete(h)
    \/ \E h \in CallerHeaders : upload(h)
    \/ login
    \/ register
    \/ logout
    \/ refreshToken
    \/ Tick
    \/ \E c \in Pending : timerFires(c)
    \/ \E c \in Pending : fetchFails(c)
    \/ \E c \in Pending, status \in Statuses : fetchResolves(c, status)
    \/ \E c \in Pending : fetchResolvesEmpty(c)
    \/ \E c \in Pending : \E body \in Bodies(c.service, c.status) : bodyRead(c, body)

Spec == Init /\ [][Next]_vars

(***************************************************************************)
(* Properties of the client and the auth service.                          *)
(***************************************************************************)
IsRequest == observed.type = "request"
IsSettle == observed.type = "settle"
HasJson(outcome) == outcome.kind = "response" /\ outcome.body # NotJson

\* C1: once a login, register or refreshToken response carried an
\* access_token, every request sent through get, post, put, delete or upload
\* without an Authorization header of the caller's carries
\* "Authorization: Bearer <that token>", until a later auth response
\* replaces the token or a logout removes it.
C1_BearerAfterLogin ==
    (IsRequest /\ observed.customHeaders.auth = NoHeader /\ issued # Null)
        => observed.headers.auth = Bearer(issued)

C1_Witness ==
    /\ IsRequest
    /\ observed.via = "get"
    /\ observed.customHeaders.auth = NoHeader
    /\ issued = "t2"
    /\ observed.headers.auth = "Bearer t2"

\* C2: when logout() has completed, whatever the network did to its request,
\* neither token is in storage and isAuthenticated() is false; requests sent
\* from then on without an Authorization header of the caller's carry none.
C2_LogoutClears ==
    /\ (IsSettle /\ observed.service = "logout")
           => /\ token = Null
              /\ refresh_token = Null
              /\ ~isAuthenticated
              /\ observed.result.kind = "value"
    /\ (IsRequest /\ observed.customHeaders.auth = NoHeader /\ issued = Null)
           => observed.headers.auth = NoHeader

C2_Witness ==
    /\ IsSettle
    /\ observed.service = "logout"
    /\ observed.outcome.kind = "timeout"
    /\ token = Null
    /\ refresh_token = Null

\* C3: refreshToken with no refresh token stored throws without sending a
\* request and leaves storage alone; with one stored it posts that token,
\* and a response with an access_token replaces the stored access token
\* (and the stored refresh token when the response has one); a failed
\* exchange leaves storage alone.
C3_Step ==
    LET n == observed'.outcome
        r == observed'.result
    IN
    /\ (observed' # observed /\ observed'.type = "settle"
            /\ observed'.service = "refreshToken" /\ n.kind = "not-sent")
           => /\ ~Truthy(refresh_token)
              /\ r.kind = "Error"
              /\ UNCHANGED <<token, refresh_token, inflight>>
    /\ (BagCardinality(inflight') > BagCardinality(inflight)
            /\ observed'.service = "refreshToken")
           => /\ Truthy(refresh_token)
              /\ observed'.method = "POST"
              /\ observed'.posted = refresh_token
    /\ (BagCardinality(inflight') < BagCardinality(inflight)
            /\ observed'.service = "refreshToken")
           => IF r.kind = "value"
              THEN IF HasJson(n) /\ Truthy(n.body.access_token)
                   THEN /\ token' = n.body.access_token
                        /\ refresh_token' = IF Truthy(n.body.refresh_token)
                                               THEN n.body.refresh_token
                                               ELSE refresh_token
                   ELSE UNCHANGED <<token, refresh_token>>
              ELSE UNCHANGED <<token, refresh_token>>

\* C3: every step of the client and the auth service is such a step.
C3_RefreshToken == [][C3_Step]_vars

C3_Witness ==
    /\ IsSettle
    /\ observed.service = "refreshToken"
    /\ HasJson(observed.outcome)
    /\ observed.outcome.body.access_token = "t2"
    /\ observed.outcome.body.refresh_token = Undefined
    /\ token = "t2"
    /\ refresh_token = "r1"

\* C4: a network failure, a timeout, a non-2xx status and a malformed JSON
\* body each reach the caller of the client as an ApiError.
Failed(outcome) ==
    \/ outcome.kind \in {"network-failure", "timeout"}
    \/ /\ outcome.kind = "response"
       /\ \/ ~response_ok(outcome.status)
          \/ outcome.status # 204 /\ outcome.body = NotJson

C4_EveryFailureIsApiError ==
    (IsSettle /\ observed.service # "logout" /\ Failed(observed.outcome))
        => observed.result.kind = "ApiError"

\* C5: a request whose fetch has not resolved when its timer is due is
\* aborted and settles with ApiError('Request timeout', 408); one whose
\* fetch resolved first has its timer cleared and never settles as timed
\* out; a timer firing settles its own request and no other.
IsTimeoutError(r) == r.kind = "ApiError" /\ r.message = "Request timeout" /\ r.status = 408

C5_State ==
    /\ \A c \in Pending :
           /\ c.elapsed < TIMEOUT + TickMs
           /\ c.phase = "body" => ~timerDue(c)
    /\ (IsSettle /\ observed.service # "logout")
           => (observed.outcome.kind = "timeout" <=> IsTimeoutError(observed.result))

C5_Step ==
    (BagCardinality(inflight') < BagCardinality(inflight)
            /\ observed'.outcome.kind = "timeout")
        => \E c \in Pending :
               /\ c.phase = "fetch"
               /\ c.elapsed >= TIMEOUT
               /\ inflight' = Settled(c)

\* C5: the state part in every state, the step part in every step.
C5_Timeout == [](C5_State) /\ [][C5_Step]_vars

C5_Witness ==
    /\ IsSettle
    /\ observed.service = "none"
    /\ observed.outcome.kind = "timeout"
    /\ IsTimeoutError(observed.result)
    /\ \E c \in Pending : c.phase = "fetch" /\ c.elapsed >= TIMEOUT

\* C6: a non-success status gives an ApiError with the HTTP status, the
\* parsed JSON body as data and, as message, the body's detail, else its
\* message, else the status line; 204 gives an empty result; a successful
\* response whose body is not JSON gives an empty object.
C6_Normalization ==
    (IsSettle /\ observed.service # "logout" /\ observed.outcome.kind = "response")
        => LET n == observed.outcome
               r == observed.result
           IN IF ~response_ok(n.status)
              THEN /\ r.kind = "ApiError"
                   /\ r.status = n.status
                   /\ HasJson(n) => r.data = n.body
                   /\ r.message =
                          IF HasJson(n) /\ n.body.detail # Undefined THEN n.body.detail
                          ELSE IF HasJson(n) /\ n.body.message # Undefined THEN n.body.message
                          ELSE StatusLine(n.status)
              ELSE /\ r.kind = "value"
                   /\ (n.status = 204 \/ n.body = NotJson) => r.data = EmptyObject

C6_Witness ==
    /\ IsSettle
    /\ observed.service = "none"
    /\ observed.outcome = Responded(401, Obj("Invalid credentials", "Bad request",
                                             Undefined, Undefined))
    /\ observed.result.message = "Invalid credentials"
    /\ observed.result.status = 401

\* C7: get, post, put, delete and upload alike send the caller's
\* Authorization header unchanged when there is one, and attach the stored
\* token as a bearer header only when there is none; upload sends no
\* Content-Type header and a FormData body.
C7_UploadAuthorizationAsPost ==
    (IsRequest /\ observed.service = "none")
        => /\ observed.headers.auth =
                  IF observed.customHeaders.auth # NoHeader THEN observed.customHeaders.auth
                  ELSE IF token # Null THEN Bearer(token)
                  ELSE NoHeader
           /\ observed.via = "upload"
                  => /\ observed.headers.ct = NoHeader
                     /\ observed.body = "FormData"
                     /\ observed.method = "POST"

\* C25: the stored tokens form a pair from one server response: when a
\* login, register or refreshToken has just stored the access token of its
\* response, the stored refresh token is the one of that same response (none
\* stored if the response has none); and no refresh token is stored without
\* an access token.
C25_TokenPair ==
    /\ token = Null => refresh_token = Null
    /\ (/\ observed.type = "settle"
        /\ observed.service \in {"login", "register", "refreshToken"}
        /\ observed.result.kind = "value"
        /\ Truthy(observed.result.data.access_token))
           => /\ token = observed.result.data.access_token
              /\ refresh_token = IF Truthy(observed.result.data.refresh_token)
                                 THEN observed.result.data.refresh_token
                                 ELSE Null

\* C26: a login, register or refreshToken response that was in flight when
\* authService.logout() completed does not put tokens back: the step that
\* follows the completion of logout and settles such a call leaves both
\* tokens absent.
C26_Step ==
    (/\ observed.type = "settle" /\ observed.service = "logout"
     /\ observed'.type = "settle"
     /\ observed'.service \in {"login", "register", "refreshToken"})
        => token' = Null /\ refresh_token' = Null

C26_LogoutFinal == [][C26_Step]_vars

(***************************************************************************)
(* product.service.ts: getProducts.  A JSON number that may be missing is  *)
(* <<n>> or <<>>; a JSON array of strings or images is written as its      *)
(* text; the boolean is_featured as "true" or "false".                     *)
(***************************************************************************)
MaxItems == 2         \* products in one backend response
MaxNum == 2           \* largest total, page, size, limit and pages the backend sends

Num(n) == <<n>>
NoNum == <<>>
Nums == {NoNum} \cup {Num(n) : n \in 0..MaxNum}

\* JavaScript's v || d for a number v that may be missing.
NumOr(v, d) == IF v # NoNum /\ v[1] # 0 THEN v[1] ELSE d

\* JavaScript's v || false for a boolean v that may be missing.
BoolOr(v) == IF v = "true" THEN "true" ELSE "false"

\* String.prototype.toLowerCase on the strings of the model.
toLowerCase(s) ==
    CASE s = "ACTIVE" -> "active"
      [] s = "Used" -> "used"
      [] OTHER -> s

\* new Date().toISOString()
nowISOString == "2026-01-01T00:00:00.000Z"

SampleProducts ==
    { [id |-> "p1", status |-> "active", condition |-> "new", quantity |-> Num(2),
       is_featured |-> "true", images |-> "[img1]", tags |-> "[watch]",
       created_at |-> "2024-05-01T10:00:00Z", updated_at |-> "2024-06-01T10:00:00Z"],
      [id |-> "p2", status |-> "ACTIVE", condition |-> "Used", quantity |-> Num(0),
       is_featured |-> "false", images |-> Undefined, tags |-> Undefined,
       created_at |-> Undefined, updated_at |-> Undefined],
      [id |-> "p3", status |-> Undefined, condition |-> Undefined, quantity |-> NoNum,
       is_featured |-> Undefined, images |-> "[]", tags |-> Undefined,
       created_at |-> "2024-05-01T10:00:00Z", updated_at |-> Undefined] }

ProductLists == UNION {[1..n -> SampleProducts] : n \in 0..MaxItems}

\* The bodies the backend answers GET /products with: a bare array, or an
\* object holding a list under one of the keys the client knows (or under
\* none) and any of the pagination fields.
ArrayResponse(list) == [kind |-> "array", list |-> list]
ObjectResponse(listKey, list, total, page, size, limit, pages) ==
    [kind |-> "object", listKey |-> listKey, list |-> list, total |-> total,
     page |-> page, size |-> size, limit |-> limit, pages |-> pages]

ListKeys == {"products", "items", "results"}

normalizeProduct(product) ==
    [product EXCEPT
        !.status = toLowerCase(OrElse(product.status, "active")),
        !.condition = OrElse(product.condition, "new"),
        !.quantity = Num(NumOr(product.quantity, 0)),
        !.is_featured = BoolOr(product.is_featured),
        !.images = OrElse(product.images, "[]"),
        !.tags = OrElse(product.tags, "[]"),
        !.created_at = OrElse(product.created_at, nowISOString),
        !.updated_at = OrElse(product.updated_at, nowISOString)]

\* Array.prototype.map with normalizeProduct
mapNormalizeProduct(list) == [i \in 1..Len(list) |-> normalizeProduct(list[i])]

ProductListResponse(items, total, page, limit, pages) ==
    [items |-> items, total |-> total, page |-> page, limit |-> limit, pages |-> pages]

\* The list and the pagination of getProducts reading limit before size.
normalizeList_limitFirst(response) ==
    IF response.kind = "array"
    THEN ProductListResponse(mapNormalizeProduct(response.list),
                             Len(response.list), 1, Len(response.list), 1)
    ELSE IF response.listKey = "products"
    THEN ProductListResponse(mapNormalizeProduct(response.list),
                             NumOr(response.total, Len(response.list)),
                             NumOr(response.page, 1),
                             NumOr(response.limit, NumOr(response.size, Len(response.list))),
                             NumOr(response.pages, 1))
    ELSE ProductListResponse(mapNormalizeProduct(response.list),
                             NumOr(response.total, 0),
                             NumOr(response.page, 1),
                             NumOr(response.limit, NumOr(response.size, 10)),
                             NumOr(response.pages, 1))

\* What getProducts makes of the body apiClient.get returned.
normalizeList(response) ==
    IF response.kind = "array"
    THEN ProductListResponse(mapNormalizeProduct(response.list),
                             Len(response.list), 1, Len(response.list), 1)
    ELSE IF response.listKey = "products"
    THEN ProductListResponse(mapNormalizeProduct(response.list),
                             NumOr(response.total, Len(response.list)),
                             NumOr(response.page, 1),
                             NumOr(response.size, NumOr(response.limit, Len(response.list))),
                             NumOr(response.pages, 1))
    ELSE ProductListResponse(mapNormalizeProduct(response.list),
                             NumOr(response.total, 0),
                             NumOr(response.page, 1),
                             NumOr(response.size, NumOr(response.limit, 10)),
                             NumOr(response.pages, 1))

\* A ProductListResponse read as a backend body.
asResponse(result) ==
    ObjectResponse("items", result.items, Num(result.total), Num(result.page),
                   NoNum, Num(result.limit), Num(result.pages))

\* getProducts once apiClient.get has returned listInput.
getProducts ==
    /\ listStage = "response"
    /\ listOutput' = normalizeList(listInput)
    /\ listStage' = "normalized"
    /\ UNCHANGED <<listInput, nonListVars>>

\* getProducts given what it returned before.
getProductsAgain ==
    /\ listStage = "normalized"
    /\ listInput' = asResponse(listOutput)
    /\ listOutput' = normalizeList(asResponse(listOutput))
    /\ listStage' = "renormalized"
    /\ UNCHANGED nonListVars

\* apiClient.get has returned the body the backend sent.
ListInit ==
    /\ ClientInit
    /\ PagesInit
    /\ \/ \E list \in ProductLists : listInput = ArrayResponse(list)
       \/ \E k \in ListKeys, list \in ProductLists :
              \E t \in Nums, p \in Nums, s \in Nums, l \in Nums, pg \in Nums :
                  listInput = ObjectResponse(k, list, t, p, s, l, pg)
       \/ \E t \in Nums, p \in Nums, s \in Nums, l \in Nums, pg \in Nums :
              listInput = ObjectResponse("none", <<>>, t, p, s, l, pg)
    /\ listOutput = NoData
    /\ listStage = "response"

ListNext ==
    \/ getProducts
    \/ getProductsAgain

ListSpec == ListInit /\ [][ListNext]_vars

(***************************************************************************)
(* Properties of getProducts.                                              *)
(***************************************************************************)
SameProducts(list, items) ==
    /\ Len(items) = Len(list)
    /\ \A i \in 1..Len(list) : items[i].id = list[i].id

\* A body {items, total, page, size, pages}: every one of them present.
IsPaginated(response) ==
    /\ response.kind = "object"
    /\ response.listKey = "items"
    /\ response.total # NoNum
    /\ response.page # NoNum
    /\ response.size # NoNum
    /\ response.pages # NoNum

ArrayNormalized ==
    (listStage = "normalized" /\ listInput.kind = "array")
        => /\ SameProducts(listInput.list, listOutput.items)
           /\ listOutput.total = Len(listInput.list)
           /\ listOutput.page = 1
           /\ listOutput.limit = Len(listInput.list)
           /\ listOutput.pages = 1

\* C8 as stated: a bare array of N products gives {items, total N, page 1,
\* limit N, pages 1}; {items, total T, page P, size S, pages Pg} gives the
\* same items with total T, page P, limit S and pages Pg, for every
\* non-negative T, P, S and Pg.
C8_Original ==
    /\ ArrayNormalized
    /\ (listStage = "normalized" /\ IsPaginated(listInput))
           => /\ SameProducts(listInput.list, listOutput.items)
              /\ listOutput.total = listInput.total[1]
              /\ listOutput.page = listInput.page[1]
              /\ listOutput.limit = listInput.size[1]
              /\ listOutput.pages = listInput.pages[1]

\* C8 as the code has it: the same, for every non-negative T and every
\* positive P, S and Pg; a page or pages of 0 comes out as 1, and a size of 0
\* as the body's limit when that is positive, else as 10.
C8_ListNormalization ==
    /\ ArrayNormalized
    /\ (listStage = "normalized" /\ IsPaginated(listInput))
           => /\ SameProducts(listInput.list, listOutput.items)
              /\ listOutput.total = listInput.total[1]
              /\ listOutput.page =
                     IF listInput.page[1] >= 1 THEN listInput.page[1] ELSE 1
              /\ listOutput.limit =
                     IF listInput.size[1] >= 1 THEN listInput.size[1]
                     ELSE IF listInput.limit # NoNum /\ listInput.limit[1] >= 1
                          THEN listInput.limit[1]
                          ELSE 10
              /\ listOutput.pages =
                     IF listInput.pages[1] >= 1 THEN listInput.pages[1] ELSE 1

C8_Witness ==
    /\ listStage = "normalized"
    /\ IsPaginated(listInput)
    /\ Len(listInput.list) = 2
    /\ listInput.total = Num(2)
    /\ listInput.page = Num(2)
    /\ listInput.size = Num(1)
    /\ listInput.pages = Num(2)
    /\ listOutput.limit = 1
    /\ listOutput.page = 2

\* C9: getProducts given a result of its own, one with no items included,
\* returns the same items, total, page, limit and pages.
C9_Idempotent ==
    listStage = "renormalized"
        => /\ listOutput.items = listInput.list
           /\ listOutput.total = listInput.total[1]
           /\ listOutput.page = listInput.page[1]
           /\ listOutput.limit = listInput.limit[1]
           /\ listOutput.pages = listInput.pages[1]

\* C10: every product getProducts returns has status and condition in
\* lowercase, images and tags that are lists, and created_at and updated_at
\* filled in.
IsLowerCase(s) == s \in {"active", "draft", "archived", "new", "used", "refurbished"}

C10_ProductsNormalized ==
    listStage = "normalized"
        => \A i \in 1..Len(listOutput.items) :
               LET product == listOutput.items[i] IN
               /\ IsLowerCase(product.status)
               /\ IsLowerCase(product.condition)
               /\ product.images # Undefined
               /\ product.tags # Undefined
               /\ product.created_at # Undefined
               /\ product.updated_at # Undefined

(***************************************************************************)
(* The Marketplace page (frontend/src/pages/MarketPlace.tsx): product      *)
(* list, filters, pagination and delete confirmation.  A handler reads the *)
(* state of the render it was created in, so a call that is still pending  *)
(* carries the values its continuation will use.  The effect on the        *)
(* filters and the page number runs in the step that changes them.         *)
(***************************************************************************)
MaxMarketCalls == 2   \* product-service calls pending at the same time
MaxPages == 2         \* largest page count the backend reports

PageLimit == 12

Product(id, category_id, brand, price) ==
    [id |-> id, category_id |-> category_id, brand |-> brand, price |-> price]

mockProducts ==
    << Product("1", "shoes", "Nike", 170),
       Product("2", "watches", "Rolex", 11000),
       Product("3", "bags", "Hermes", 25000),
       Product("4", "fragrances", "Chanel", 350) >>

\* What the shopper chooses in the three selects and types in the search
\* box.  The selects start at "" and are put to "all" by clearFilters.
CategoryChoices == {"watches"}
BrandChoices == {"rolex"}
PriceChoices == {"5000-10000"}
SearchTexts == {"rolex"}

\* The products the backend holds, and what it answers to a request: those
\* of its products that pass the filters of the request, or nothing, with a
\* page count.
BackendProducts ==
    << Product("b1", "watches", "rolex", 7000), Product("b2", "shoes", "nike", 170) >>

Passes(product, filters) ==
    /\ filters.search = Undefined \/ product.brand = filters.search
    /\ filters.category_id = Undefined \/ product.category_id = filters.category_id
    /\ filters.brand = Undefined \/ product.brand = filters.brand
    /\ filters.min_price = NoNum \/ product.price >= filters.min_price[1]
    /\ filters.max_price = NoNum \/ product.price <= filters.max_price[1]

PassesFilters(filters) ==
    LET Test(product) == Passes(product, filters) IN SelectSeq(BackendProducts, Test)

BackendAnswers(filters) == { <<>>, PassesFilters(filters) }

\* priceRange.split('-') followed by parseInt of the parts.
min_price(range) ==
    CASE range = "5000-10000" -> Num(5000)
      [] range = "50000+" -> Num(50000)
      [] OTHER -> NoNum
max_price(range) ==
    CASE range = "5000-10000" -> Num(10000)
      [] OTHER -> NoNum

Chosen(value) == value # "" /\ value # "all"

\* The filters object fetchProducts builds from the state it sees.
fetchFilters(page, search, category, brand, range) ==
    [page |-> page, limit |-> PageLimit, status |-> "active",
     search |-> IF search # "" THEN search ELSE Undefined,
     category_id |-> IF Chosen(category) THEN category ELSE Undefined,
     brand |-> IF Chosen(brand) THEN brand ELSE Undefined,
     min_price |-> IF Chosen(range) THEN min_price(range) ELSE NoNum,
     max_price |-> IF Chosen(range) THEN max_price(range) ELSE NoNum]

currentFilters ==
    fetchFilters(currentPage, searchQuery, selectedCategory, selectedBrand, priceRange)

\* fetchProducts called from a handler or an effect: one getProducts call.
fetchProducts(origin, filters) ==
    [op |-> "fetch", origin |-> origin, filters |-> filters, overtaken |-> FALSE]

\* productService.deleteProduct(id); filters are what the fetchProducts of
\* the clicked render will ask for.
deleteProduct(id, filters) ==
    [op |-> "delete", origin |-> "confirm", id |-> id, filters |-> filters,
     overtaken |-> FALSE]

IsFetch(call) == call.op = "fetch"

\* The effect on [selectedCategory, selectedBrand, priceRange, searchQuery,
\* currentPage]: the calls it makes when it runs with these values.
filterEffect(page, search, category, brand, range) ==
    IF Chosen(category) \/ Chosen(brand) \/ Chosen(range) \/ search # ""
    THEN << fetchProducts("effect", fetchFilters(page, search, category, brand, range)) >>
    ELSE <<>>

\* A handler that sets filters or the page number and calls the service
\* itself (direct); React then renders and runs the effect when one of its
\* dependencies has changed.
Handle(kind, page, search, category, brand, range, confirmId, direct) ==
    LET before == <<currentPage, searchQuery, selectedCategory, selectedBrand, priceRange>>
        after == <<page, search, category, brand, range>>
        issued_ == direct \o (IF after # before
                              THEN filterEffect(page, search, category, brand, range)
                              ELSE <<>>)
    IN  /\ Len(marketCalls) + Len(issued_) <= MaxMarketCalls
        /\ currentPage' = page
        /\ searchQuery' = search
        /\ selectedCategory' = category
        /\ selectedBrand' = brand
        /\ priceRange' = range
        /\ deleteConfirmId' = confirmId
        /\ marketCalls' = marketCalls \o issued_
        /\ loadingProducts' =
               (IF \E i \in 1..Len(issued_) : IsFetch(issued_[i]) THEN TRUE ELSE loadingProducts)
        /\ marketEvent' = [kind |-> kind, from |-> currentPage, id |-> confirmId,
                           requests |-> issued_]
        /\ UNCHANGED <<totalPages, products, nonMarketVars>>

setSelectedCategory(value) ==
    /\ value # selectedCategory
    /\ Handle("category", currentPage, searchQuery, value, selectedBrand, priceRange,
              deleteConfirmId, <<>>)

setSelectedBrand(value) ==
    /\ value # selectedBrand
    /\ Handle("brand", currentPage, searchQuery, selectedCategory, value, priceRange,
              deleteConfirmId, <<>>)

setPriceRange(value) ==
    /\ value # priceRange
    /\ Handle("price", currentPage, searchQuery, selectedCategory, selectedBrand, value,
              deleteConfirmId, <<>>)

setSearchQuery(text) ==
    /\ text # searchQuery
    /\ Handle("typed", currentPage, text, selectedCategory, selectedBrand, priceRange,
              deleteConfirmId, <<>>)

handleSearch ==
    Handle("search", 1, searchQuery, selectedCategory, selectedBrand, priceRange,
           deleteConfirmId, << fetchProducts("handleSearch", currentFilters) >>)

clearFilters ==
    Handle("clear", 1, "", "all", "all", "all", deleteConfirmId, <<>>)

Max(a, b) == IF a >= b THEN a ELSE b
Min(a, b) == IF a <= b THEN a ELSE b

\* The pagination bar is rendered when totalPages > 1.
clickPrevious ==
    /\ totalPages > 1
    /\ currentPage # 1
    /\ Handle("previous", Max(1, currentPage - 1), searchQuery, selectedCategory,
              selectedBrand, priceRange, deleteConfirmId, <<>>)

clickNext ==
    /\ totalPages > 1
    /\ currentPage # totalPages
    /\ Handle("next", Min(totalPages, currentPage + 1), searchQuery, selectedCategory,
              selectedBrand, priceRange, deleteConfirmId, <<>>)

clickPage(i) ==
    /\ totalPages > 1
    /\ i \in 1..Min(5, totalPages)
    /\ Handle("page", i, searchQuery, selectedCategory, selectedBrand, priceRange,
              deleteConfirmId, <<>>)

\* The cards are rendered when the list is not loading and not empty.
CardsShown == ~loadingProducts /\ products # <<>>

isArmed_any(product) == deleteConfirmId # Null
isArmed(product) == deleteConfirmId = product.id

Armed == { i \in 1..Len(products) : isArmed(products[i]) }

clickDelete(i) ==
    /\ CardsShown
    /\ i \in 1..Len(products)
    /\ ~isArmed(products[i])
    /\ Handle("armed", currentPage, searchQuery, selectedCategory, selectedBrand,
              priceRange, products[i].id, <<>>)

clickCancel(i) ==
    /\ CardsShown
    /\ i \in Armed
    /\ Handle("cancelled", currentPage, searchQuery, selectedCategory, selectedBrand,
              priceRange, Null, <<>>)

\* handleDeleteProduct up to its await.
clickConfirm(i) ==
    /\ CardsShown
    /\ i \in Armed
    /\ Handle("confirm", currentPage, searchQuery, selectedCategory, selectedBrand,
              priceRange, deleteConfirmId, << deleteProduct(products[i].id, currentFilters) >>)

\* Continuations.  Responses arrive in any order.
Without(calls, i) == SubSeq(calls, 1, i - 1) \o SubSeq(calls, i + 1, Len(calls))

\* Nothing cancels or orders the pending calls: any of them may be answered
\* next.  History: `overtaken` marks the calls that were issued before a
\* product fetch that has already been answered.
Overtake(calls, i) ==
    [ j \in 1..Len(calls) |->
        IF j < i /\ IsFetch(calls[i]) THEN [calls[j] EXCEPT !.overtaken = TRUE]
        ELSE calls[j] ]

Continue(i, kind, ok, items, pages, list, count, busy, confirmId, issued_) ==
    /\ marketCalls' = Without(Overtake(marketCalls, i), i) \o issued_
    /\ products' = list
    /\ totalPages' = count
    /\ loadingProducts' = busy
    /\ deleteConfirmId' = confirmId
    /\ marketEvent' = [kind |-> kind, call |-> marketCalls[i], ok |-> ok, items |-> items,
                       pages |-> pages, requests |-> issued_]
    /\ UNCHANGED <<filterVars, currentPage, nonMarketVars>>

\* loadInitialProducts after its await: the list it shows.
initialProducts_adoptEmpty(ok, items) == IF ok THEN items ELSE mockProducts
initialProducts(ok, items) == IF ok /\ Len(items) > 0 THEN items ELSE mockProducts

initialLoaded(i, ok, items, pages) ==
    /\ marketCalls[i].op = "initial"
    /\ Continue(i, "initialLoaded", ok, items, pages, initialProducts(ok, items),
                IF ok /\ Len(items) > 0 THEN pages ELSE totalPages,
                FALSE, deleteConfirmId, <<>>)

\* fetchProducts dropping an answer that a later-issued fetch has overtaken.
fetched_latestOnly(i, ok, items, pages) ==
    /\ marketCalls[i].op = "fetch"
    /\ Continue(i, "fetched", ok, items, pages,
                IF marketCalls[i].overtaken THEN products
                ELSE IF ok THEN items ELSE mockProducts,
                IF marketCalls[i].overtaken \/ ~ok THEN totalPages ELSE pages,
                FALSE, deleteConfirmId, <<>>)

\* fetchProducts after its await.
fetched(i, ok, items, pages) ==
    /\ marketCalls[i].op = "fetch"
    /\ Continue(i, "fetched", ok, items, pages,
                IF ok THEN items ELSE mockProducts,
                IF ok THEN pages ELSE totalPages,
                FALSE, deleteConfirmId, <<>>)

\* handleDeleteProduct after its await: the calls it goes on to make.
afterDelete_always(ok, filters) == << fetchProducts("afterDelete", filters) >>
afterDelete(ok, filters) ==
    IF ok THEN << fetchProducts("afterDelete", filters) >> ELSE <<>>

deleted(i, ok) ==
    /\ marketCalls[i].op = "delete"
    /\ Continue(i, "deleted", ok, <<>>, 1, products, totalPages,
                IF ok THEN TRUE ELSE loadingProducts, Null,
                afterDelete(ok, marketCalls[i].filters))

MarketNext ==
    \/ \E value \in CategoryChoices : setSelectedCategory(value)
    \/ \E value \in BrandChoices : setSelectedBrand(value)
    \/ \E value \in PriceChoices : setPriceRange(value)
    \/ \E text \in SearchTexts : setSearchQuery(text)
    \/ handleSearch
    \/ clearFilters
    \/ clickPrevious
    \/ clickNext
    \/ \E i \in 1..5 : clickPage(i)
    \/ \E i \in 1..Len(marketCalls) :
           \/ \E items \in BackendAnswers(marketCalls[i].filters), pages \in 1..MaxPages :
                  initialLoaded(i, TRUE, items, pages)
           \/ initialLoaded(i, FALSE, <<>>, 1)
    \/ \E i \in 1..Len(marketCalls) :
           \/ \E items \in BackendAnswers(marketCalls[i].filters), pages \in 1..MaxPages :
                  fetched(i, TRUE, items, pages)
           \/ fetched(i, FALSE, <<>>, 1)

\* The page with the filters, the search box and the pagination bar in use.
MarketSpec == Init /\ [][MarketNext]_vars

DeleteNext ==
    \/ \E value \in CategoryChoices : setSelectedCategory(value)
    \/ \E i \in 1..Len(products) : clickDelete(i)
    \/ \E i \in 1..Len(products) : clickCancel(i)
    \/ \E i \in 1..Len(products) : clickConfirm(i)
    \/ \E i \in 1..Len(marketCalls) :
           \/ \E items \in BackendAnswers(marketCalls[i].filters), pages \in 1..MaxPages :
                  initialLoaded(i, TRUE, items, pages)
           \/ initialLoaded(i, FALSE, <<>>, 1)
    \/ \E i \in 1..Len(marketCalls) :
           \/ \E items \in BackendAnswers(marketCalls[i].filters), pages \in 1..MaxPages :
                  fetched(i, TRUE, items, pages)
           \/ fetched(i, FALSE, <<>>, 1)
    \/ \E i \in 1..Len(marketCalls), ok \in BOOLEAN : deleted(i, ok)

\* The page with the delete buttons of the cards in use.
DeleteSpec == Init /\ [][DeleteNext]_vars

(***************************************************************************)
(* Properties of the Marketplace product list.                             *)
(***************************************************************************)
InRange(product, low, high) == product.price >= low /\ product.price <= high

\* C11: when the mount-time load (page 1, limit 12) has just finished, the
\* list is not empty and the loading flag is off: the list is the response's
\* items, with the response's page count, when there is at least one item,
\* and the four-item sample catalog when there is none or the load failed.
C11_InitialLoad ==
    marketEvent.kind = "initialLoaded" =>
        /\ marketEvent.call.filters.page = 1
        /\ marketEvent.call.filters.limit = PageLimit
        /\ Len(products) > 0
        /\ ~loadingProducts
        /\ IF marketEvent.ok /\ Len(marketEvent.items) > 0
           THEN products = marketEvent.items /\ totalPages = marketEvent.pages
           ELSE products = mockProducts /\ Len(products) = 4

C11_Witness ==
    /\ marketEvent.kind = "initialLoaded"
    /\ marketEvent.ok
    /\ marketEvent.items = <<>>
    /\ products = mockProducts

\* C12: a click on Previous, Next or a page number that changes the page
\* number issues one fetch, for the new page with the current filters,
\* whatever the filters are.
C12_PageChangeRefetches ==
    (marketEvent.kind \in {"previous", "next", "page"} /\ marketEvent.from # currentPage)
        => marketEvent.requests = << fetchProducts("effect", currentFilters) >>

\* C13: with the backend unreachable, so that the sample catalog is what the
\* page falls back to, once the search submitted with category 'watches' and
\* price range '5000-10000' has finished, every product on display is a
\* watch priced within [5000, 10000].
C13_SampleSearchFiltered ==
    (/\ marketEvent.kind = "fetched"
     /\ ~marketEvent.ok
     /\ marketEvent.call.origin = "handleSearch"
     /\ marketEvent.call.filters.category_id = "watches"
     /\ marketEvent.call.filters.min_price = Num(5000)
     /\ marketEvent.call.filters.max_price = Num(10000))
        => \A i \in 1..Len(products) :
               products[i].category_id = "watches" /\ InRange(products[i], 5000, 10000)

\* C14: at most one card is armed; a click on Delete arms the clicked card
\* and calls nothing; a click on Cancel disarms it, calls nothing and leaves
\* the list, the page number, the page count and the filters as they were.
C14_State ==
    /\ Cardinality(Armed) <= 1
    /\ marketEvent.kind = "armed" =>
           /\ Armed = { i \in 1..Len(products) : products[i].id = marketEvent.id }
           /\ Armed # {}
           /\ marketEvent.requests = <<>>
    /\ marketEvent.kind = "cancelled" =>
           /\ Armed = {}
           /\ marketEvent.requests = <<>>

C14_Step ==
    marketEvent'.kind \in {"armed", "cancelled"} =>
        UNCHANGED <<products, currentPage, totalPages, filterVars, marketCalls, loadingProducts>>

\* C14: the state part in every state, the step part in every step.
C14_DeleteScoped == [](C14_State) /\ [][C14_Step]_vars

C14_Witness ==
    /\ marketEvent.kind = "cancelled"
    /\ deleteConfirmId = Null
    /\ Len(products) > 1
    /\ marketCalls = <<>>

\* C15: a click on Confirm issues one call, the delete of the armed
\* product; when that call has succeeded the page issues one call, a product
\* fetch, and when it has failed none; either way no card is armed then.
C15_ConfirmDeletes ==
    /\ marketEvent.kind = "confirm" =>
           /\ Len(marketEvent.requests) = 1
           /\ marketEvent.requests[1].op = "delete"
           /\ \E i \in Armed : marketEvent.requests[1].id = products[i].id
    /\ marketEvent.kind = "deleted" =>
           /\ deleteConfirmId = Null
           /\ Armed = {}
           /\ IF marketEvent.ok
              THEN Len(marketEvent.requests) = 1 /\ IsFetch(marketEvent.requests[1])
              ELSE marketEvent.requests = <<>>

C15_Witness ==
    /\ marketEvent.kind = "deleted"
    /\ marketEvent.ok
    /\ Len(marketEvent.requests) = 1
    /\ deleteConfirmId = Null

\* C23: product fetches are neither cancelled nor sequenced: the answer of a
\* fetch that a later-issued fetch has already overtaken is applied all the
\* same, and replaces the product list and the total-page count.
C23_StaleFetchOverwrites ==
    (marketEvent.kind = "fetched" /\ marketEvent.call.overtaken) =>
        /\ products = IF marketEvent.ok THEN marketEvent.items ELSE mockProducts
        /\ marketEvent.ok => totalPages = marketEvent.pages

\* The page shows the answer of a fetch that is not the last one issued.
C23_Witness ==
    /\ marketEvent.kind = "fetched"
    /\ marketEvent.call.overtaken
    /\ marketEvent.ok
    /\ marketEvent.items # <<>>
    /\ products = marketEvent.items
    /\ totalPages = marketEvent.pages
    /\ marketCalls = <<>>

\* C28: the page number is always within the page count,
\* 1 <= currentPage <= totalPages, whatever a fetch answers while a later
\* page is current.
C28_PageWithinRange == 1 <= currentPage /\ currentPage <= totalPages

\* C29: submitting the search form sets the page number to 1, and every
\* fetch the submit causes asks for page 1 with the filters in force, never
\* for the page that was current before the submit.
C29_SearchFetchesPageOne ==
    marketEvent.kind = "search" =>
        /\ currentPage = 1
        /\ marketEvent.requests # <<>>
        /\ \A i \in 1..Len(marketEvent.requests) :
               /\ marketEvent.requests[i].filters.page = 1
               /\ marketEvent.requests[i].filters = currentFilters


(***************************************************************************)
(* The chat popup of the Marketplace page (MarketPlace.tsx 391-459 and     *)
(* 910-1095).  A pending call carries the conversationId of the render in  *)
(* which it was sent: that is the value its continuation tests.            *)
(***************************************************************************)
MaxChatCalls == 2     \* chat requests pending at the same time
MaxMessages == 4      \* length of the transcript

ChatTexts == {"hello"}
QuickActionTexts == {"Is this available?"}
ConversationIds == {"c1", "c2"}
ChatProducts == {"1"}

\* The answers of POST /ai/chat: the reply text in one of three fields or in
\* none, with or without a conversation id.
ChatResponse(response, message, content, conversation_id) ==
    [response |-> response, message |-> message, content |-> content,
     conversation_id |-> conversation_id]
ChatResponses ==
    { ChatResponse(r, m, c, id) :
          r \in {Undefined, "from response"}, m \in {Undefined, "from message"},
          c \in {Undefined, "from content"}, id \in ConversationIds \cup {Undefined} }

ChatMessage(role, content) == [role |-> role, content |-> content]

heldId(id) == IF id = Null THEN Undefined ELSE id

\* The object sendChatMessage passes to aiService.sendMessage.
typedRequest(userMessage, id, product) ==
    [message |-> userMessage,
     conversation_id |-> heldId(id),
     context |-> IF product # Null
                 THEN [product |-> product, interaction_type |-> "product_details"]
                 ELSE Undefined,
     interaction_type |-> IF product # Null THEN "product_details" ELSE "general_chat"]

\* The object the quick-action handler passes to aiService.sendMessage.
quickRequest(userMessage, id) ==
    [message |-> userMessage, conversation_id |-> heldId(id)]

\* The text of the assistant bubble on each of the two paths.
typedReply(response) ==
    OrElse(response.response,
           OrElse(response.message, OrElse(response.content, "No response received")))
quickReply(response) == response.response

Apology == "Sorry, I encountered an error. Please try again."

\* A pending call: the path it came from, what was sent, and conversationId
\* as the closure of its continuation holds it.
ChatCall(via, request, id) == [via |-> via, request |-> request, conversationId |-> id]

Room == Len(chatMessages) + Len(chatCalls) + 2 <= MaxMessages /\ Len(chatCalls) < MaxChatCalls

\* The floating button.
toggleChat ==
    /\ chatOpen' = ~chatOpen
    /\ chatEvent' = [kind |-> "toggled"]
    /\ UNCHANGED <<selectedProductForChat, chatMessages, chatInput, chatLoading,
                   conversationId, chatCalls, nonChatVars>>

\* The X of the popup header.
closeChat ==
    /\ chatOpen
    /\ chatOpen' = FALSE
    /\ selectedProductForChat' = Null
    /\ chatMessages' = <<>>
    /\ chatEvent' = [kind |-> "closed"]
    /\ UNCHANGED <<chatInput, chatLoading, conversationId, chatCalls, nonChatVars>>

\* The chat button of a product card.
handleChatWithProduct(product) ==
    /\ selectedProductForChat' = product
    /\ chatOpen' = TRUE
    /\ chatMessages' = << ChatMessage("assistant", "Hi! I can help you with information") >>
    /\ chatEvent' = [kind |-> "product"]
    /\ UNCHANGED <<chatInput, chatLoading, conversationId, chatCalls, nonChatVars>>

\* The X of the product strip.
removeChatProduct ==
    /\ chatOpen
    /\ selectedProductForChat # Null
    /\ selectedProductForChat' = Null
    /\ chatEvent' = [kind |-> "product removed"]
    /\ UNCHANGED <<chatOpen, chatMessages, chatInput, chatLoading, conversationId,
                   chatCalls, nonChatVars>>

setChatInput(text) ==
    /\ chatOpen
    /\ text # chatInput
    /\ chatInput' = text
    /\ chatEvent' = [kind |-> "typed"]
    /\ UNCHANGED <<chatOpen, selectedProductForChat, chatMessages, chatLoading,
                   conversationId, chatCalls, nonChatVars>>

\* The form's submit: sendChatMessage up to its await.
sendChatMessage ==
    /\ chatOpen
    /\ chatInput # "" /\ ~chatLoading
    /\ Room
    /\ LET request == typedRequest(chatInput, conversationId, selectedProductForChat)
       IN  /\ chatCalls' = Append(chatCalls, ChatCall("typed", request, conversationId))
           /\ chatEvent' = [kind |-> "request", via |-> "typed", request |-> request,
                            same |-> request]
    /\ chatInput' = ""
    /\ chatMessages' = Append(chatMessages, ChatMessage("user", chatInput))
    /\ chatLoading' = TRUE
    /\ UNCHANGED <<chatOpen, selectedProductForChat, conversationId, nonChatVars>>

\* A quick-action chip: shown while the transcript is empty and no product
\* is in context.  same: what sendChatMessage would send for this text.
selectQuickAction(text) ==
    /\ chatOpen
    /\ Len(chatMessages) = 0 /\ selectedProductForChat = Null
    /\ Room
    /\ LET request == quickRequest(text, conversationId)
       IN  /\ chatCalls' = Append(chatCalls, ChatCall("quick", request, conversationId))
           /\ chatEvent' = [kind |-> "request", via |-> "quick", request |-> request,
                            same |-> typedRequest(text, conversationId,
                                                  selectedProductForChat)]
    /\ chatInput' = text
    /\ chatMessages' = Append(chatMessages, ChatMessage("user", text))
    /\ chatLoading' = TRUE
    /\ UNCHANGED <<chatOpen, selectedProductForChat, conversationId, nonChatVars>>

\* if (!conversationId && response.conversation_id) setConversationId(...)
adoptedId(captured, response) ==
    IF captured = Null /\ Truthy(response.conversation_id)
    THEN response.conversation_id
    ELSE conversationId

\* aiService.sendMessage has resolved.
chatReplied(i, response) ==
    LET call == chatCalls[i]
        content == IF call.via = "typed" THEN typedReply(response) ELSE quickReply(response)
    IN  /\ conversationId' = adoptedId(call.conversationId, response)
        /\ chatMessages' = Append(chatMessages, ChatMessage("assistant", content))
        /\ chatLoading' = FALSE
        /\ chatInput' = (IF call.via = "quick" THEN "" ELSE chatInput)
        /\ chatCalls' = Without(chatCalls, i)
        /\ chatEvent' = [kind |-> "reply", via |-> call.via, response |-> response,
                         content |-> content, toast |-> Undefined]
        /\ UNCHANGED <<chatOpen, selectedProductForChat, nonChatVars>>

\* aiService.sendMessage has rejected.
chatFailed(i) ==
    LET call == chatCalls[i]
    IN  /\ chatMessages' = Append(chatMessages, ChatMessage("assistant", Apology))
        /\ chatLoading' = FALSE
        /\ chatInput' = (IF call.via = "quick" THEN "" ELSE chatInput)
        /\ chatCalls' = Without(chatCalls, i)
        /\ chatEvent' = [kind |-> "failed", via |-> call.via, content |-> Apology,
                         toast |-> IF call.via = "typed" THEN "Failed to send message"
                                   ELSE Undefined]
        /\ UNCHANGED <<chatOpen, selectedProductForChat, conversationId, nonChatVars>>

ChatNext ==
    \/ toggleChat
    \/ closeChat
    \/ \E product \in ChatProducts : handleChatWithProduct(product)
    \/ removeChatProduct
    \/ \E text \in ChatTexts \cup {""} : setChatInput(text)
    \/ sendChatMessage
    \/ \E text \in QuickActionTexts : selectQuickAction(text)
    \/ \E i \in 1..Len(chatCalls), response \in ChatResponses : chatReplied(i, response)
    \/ \E i \in 1..Len(chatCalls) : chatFailed(i)

ChatSpec == Init /\ [][ChatNext]_vars

(***************************************************************************)
(* Properties of the chat popup.                                           *)
(***************************************************************************)
\* C16: every chat request carries the conversation id held when it is
\* sent; a reply with a conversation_id that arrives while none is held
\* makes its id the held one; an id once held is not replaced by any later
\* reply, and a failed turn leaves it as it is.
C16_State ==
    /\ chatEvent.kind = "request" => chatEvent.request.conversation_id = heldId(conversationId)
    /\ (chatEvent.kind = "reply" /\ Truthy(chatEvent.response.conversation_id)) =>
           conversationId # Null

C16_Step ==
    /\ (conversationId = Null /\ chatEvent'.kind = "reply"
            /\ Truthy(chatEvent'.response.conversation_id)) =>
           conversationId' = chatEvent'.response.conversation_id
    /\ conversationId # Null => conversationId' = conversationId
    /\ chatEvent'.kind = "failed" => conversationId' = conversationId

C16_ConversationKept == [](C16_State) /\ [][C16_Step]_vars

\* C17: a quick-action chip sends what the typed path would send for the
\* same text (message, held conversation id, interaction type), shows the
\* reply text the typed path would show (response, else message, else
\* content, else the placeholder), and on failure appends the apology and
\* raises the error toast.
C17_QuickActionSamePath ==
    chatEvent.kind \in {"request", "reply", "failed"} /\ chatEvent.via = "quick" =>
        /\ chatEvent.kind = "request" => chatEvent.request = chatEvent.same
        /\ chatEvent.kind = "reply" => chatEvent.content = typedReply(chatEvent.response)
        /\ chatEvent.kind = "failed" =>
               chatEvent.content = Apology /\ chatEvent.toast = "Failed to send message"

\* C27: at most one chat request of the Marketplace popup is in flight at
\* any time.
C27_OneChatRequest == Len(chatCalls) <= 1

(***************************************************************************)
(* The Create Product page (frontend/src/pages/CreateProduct.tsx).         *)
(***************************************************************************)
MaxSelect == 3        \* files picked in one go
MaxCreateCalls == 2   \* product creations pending at the same time

MaxImages == 5

Files == {"a.png", "b.png"}
Selections == UNION { [1..n -> Files] : n \in 1..MaxSelect }

NameTexts == {"", "Watch"}
PriceTexts == {"", "19.99", "-5"}
QuantityTexts == {"", "1", "-1", "2.5"}

\* parseFloat of a price text, in hundredths; NoNum is NaN.
parseFloat(text) ==
    CASE text = "19.99" -> Num(1999)
      [] text = "-5" -> Num(-500)
      [] OTHER -> NoNum

\* parseInt of a quantity text; NoNum is NaN.
parseInt(text) ==
    CASE text = "1" -> Num(1)
      [] text = "-1" -> Num(-1)
      [] text = "2.5" -> Num(2)
      [] OTHER -> NoNum

IsInteger(text) == text \in {"1", "-1"}

\* What GET /categories is answered with.
Category(id, name) == [id |-> id, name |-> name]
CategoryLists == { <<>>, << Category("c1", "Watches") >> }
CategoryResponses ==
    { [shape |-> sh, list |-> l] : sh \in {"array", "categories", "items"}, l \in CategoryLists }
        \cup { [shape |-> "object", list |-> <<>>] }

DefaultCategories == << Category("default-category", "General") >>

\* fetchCategories after its await: the argument of setCategories.
loadedCategories(ok, response) ==
    IF ok /\ response.shape \in {"array", "categories", "items"}
    THEN response.list
    ELSE DefaultCategories

\* The items of the category select.
categoryOptions ==
    IF loadingCategories THEN << "Loading categories..." >>
    ELSE IF Len(categories) > 0 THEN [i \in 1..Len(categories) |-> categories[i].name]
    ELSE << "No categories available" >>

categoriesLoaded(i, ok, response) ==
    /\ ~navigated
    /\ createCalls[i].op = "categories"
    /\ categories' = loadedCategories(ok, response)
    /\ loadingCategories' = FALSE
    /\ createCalls' = Without(createCalls, i)
    /\ createEvent' = [kind |-> "categories", ok |-> ok, response |-> response,
                       toast |-> IF ok THEN Undefined ELSE "Failed to load categories"]
    /\ UNCHANGED <<loading, imageVars, formData, navigated, nonCreateVars>>

setFormData(field, text) ==
    /\ ~navigated
    /\ formData[field] # text
    /\ formData' = [formData EXCEPT ![field] = text]
    /\ createEvent' = [kind |-> "edited"]
    /\ UNCHANGED <<loading, loadingCategories, categories, imageVars, createCalls,
                   navigated, nonCreateVars>>

\* Images.
BagOfSeq(files) ==
    LET used == { files[i] : i \in 1..Len(files) }
    IN  [f \in used |-> Cardinality({ i \in 1..Len(files) : files[i] = f })]

Preview(file) == "data:" \o file

tooMany_never(files) == FALSE
tooMany(files) == Len(files) + Len(images) > MaxImages

handleImageChange(files) ==
    /\ ~navigated
    /\ IF tooMany(files)
       THEN /\ createEvent' = [kind |-> "images", before |-> images, files |-> files,
                               toast |-> "Maximum 5 images allowed"]
            /\ UNCHANGED imageVars
       ELSE /\ images' = images \o files
            /\ previewReads' = previewReads (+) BagOfSeq(files)
            /\ createEvent' = [kind |-> "images", before |-> images, files |-> files,
                               toast |-> Undefined]
            /\ UNCHANGED imagePreviews
    /\ UNCHANGED <<loading, loadingCategories, categories, formData, createCalls,
                   navigated, nonCreateVars>>

\* reader.onloadend of one of the pending reads.
previewLoaded(file) ==
    /\ ~navigated
    /\ BagIn(file, previewReads)
    /\ previewReads' = previewReads (-) SetToBag({file})
    /\ imagePreviews' = Append(imagePreviews, Preview(file))
    /\ createEvent' = [kind |-> "preview"]
    /\ UNCHANGED <<images, loading, loadingCategories, categories, formData, createCalls,
                   navigated, nonCreateVars>>

\* filter((_, i) => i !== index), with the index counted from 1.
filterOut(list, index) ==
    IF index \in 1..Len(list) THEN Without(list, index) ELSE list

\* The X of a preview tile.
removeImage(index) ==
    /\ ~navigated
    /\ index \in 1..Len(imagePreviews)
    /\ images' = filterOut(images, index)
    /\ imagePreviews' = filterOut(imagePreviews, index)
    /\ createEvent' = [kind |-> "removed", before |-> images]
    /\ UNCHANGED <<previewReads, loading, loadingCategories, categories, formData,
                   createCalls, navigated, nonCreateVars>>

\* Submission.  What the browser checks before it fires the form's submit
\* event: name required, price a required number with step 0.01, quantity a
\* required number with min 0 and the default step 1.
formValid ==
    /\ formData.name # ""
    /\ parseFloat(formData.price) # NoNum
    /\ IsInteger(formData.quantity) /\ parseInt(formData.quantity)[1] >= 0

productData ==
    [name |-> formData.name, price |-> parseFloat(formData.price),
     quantity |-> parseInt(formData.quantity)]

\* handleSubmit up to its await.
handleSubmit(via) ==
    /\ ~navigated
    /\ Len(createCalls) < MaxCreateCalls
    /\ loading' = TRUE
    /\ createCalls' = Append(createCalls, [op |-> "create", productData |-> productData,
                                           images |-> images])
    /\ createEvent' = [kind |-> "request", via |-> via, form |-> formData,
                       productData |-> productData]
    /\ UNCHANGED <<loadingCategories, categories, imageVars, formData, navigated,
                   nonCreateVars>>

\* The form's own submit event.
submitForm == formValid /\ handleSubmit("form")

\* The header button, disabled while loading.
clickCreateProduct == ~loading /\ handleSubmit("header")

\* handleSubmit after its await.
created(i, ok) ==
    /\ ~navigated
    /\ createCalls[i].op = "create"
    /\ navigated' = ok
    /\ loading' = FALSE
    /\ createCalls' = Without(createCalls, i)
    /\ createEvent' = [kind |-> "created", ok |-> ok]
    /\ UNCHANGED <<loadingCategories, categories, imageVars, formData, nonCreateVars>>

loadCategories(i) ==
    \/ \E response \in CategoryResponses : categoriesLoaded(i, TRUE, response)
    \/ categoriesLoaded(i, FALSE, [shape |-> "none", list |-> <<>>])

CreateNext ==
    \/ \E i \in 1..Len(createCalls) : loadCategories(i)
    \/ \E text \in NameTexts : setFormData("name", text)
    \/ \E text \in PriceTexts : setFormData("price", text)
    \/ \E text \in QuantityTexts : setFormData("quantity", text)
    \/ submitForm
    \/ clickCreateProduct
    \/ \E i \in 1..Len(createCalls), ok \in BOOLEAN : created(i, ok)

\* The page with the form and its two submit controls in use.
CreateSpec == Init /\ [][CreateNext]_vars

ImagesNext ==
    \/ \E files \in Selections : handleImageChange(files)
    \/ \E file \in Files : previewLoaded(file)
    \/ \E index \in 1..MaxImages : removeImage(index)

\* The page with the image picker in use.
ImagesSpec == Init /\ [][ImagesNext]_vars

(***************************************************************************)
(* Properties of the Create Product page.                                  *)
(***************************************************************************)
\* C18: when the category request has rejected, or has returned an empty
\* list (bare, under 'categories' or under 'items'), the category select
\* offers one option, 'General'.
C18_CategoryFallback ==
    (/\ createEvent.kind = "categories"
     /\ ~createEvent.ok \/ Len(createEvent.response.list) = 0)
        => categoryOptions = << "General" >>

\* C19: at most five images are attached; a selection that would make them
\* more than five changes nothing, any other selection is appended whole.
C19_AtMostFiveImages ==
    /\ Len(images) <= 5
    /\ createEvent.kind = "images" =>
           IF Len(createEvent.before) + Len(createEvent.files) > 5
           THEN images = createEvent.before /\ Truthy(createEvent.toast)
           ELSE images = createEvent.before \o createEvent.files

C19_Witness ==
    /\ createEvent.kind = "images"
    /\ Len(createEvent.before) = 5
    /\ Truthy(createEvent.toast)
    /\ Len(images) = 5

\* C30: whenever no preview read is pending, the preview list is as long as
\* the attached-image list and the preview at each index is the preview of
\* the file at that index.
C30_PreviewsAligned ==
    previewReads = EmptyBag =>
        /\ Len(imagePreviews) = Len(images)
        /\ \A i \in 1..Len(images) : imagePreviews[i] = Preview(images[i])

\* C20: a product-creation request goes out, from the form's submit or from
\* the header button, only with a non-empty name, a price that is a number
\* >= 0 and a quantity that is an integer >= 0.
C20_OnlyValidProducts ==
    createEvent.kind = "request" =>
        /\ createEvent.form.name # ""
        /\ createEvent.productData.price # NoNum
        /\ createEvent.productData.price[1] >= 0
        /\ IsInteger(createEvent.form.quantity)
        /\ createEvent.productData.quantity[1] >= 0

(***************************************************************************)
(* The application shell (App.tsx): the route table and the router's       *)
(* choice among its routes.  A path is the sequence of its segments, "/"   *)
(* being the empty sequence.                                               *)
(***************************************************************************)
MaxSegments == 3      \* segments of a path

Segments == {"marketplace", "product", "create", "42", "favorites", "login",
             "ai-assistant"}
Paths == UNION { [1..n -> Segments] : n \in 0..MaxSegments }

Static(text) == [kind |-> "static", text |-> text]
Param(name) == [kind |-> "param", text |-> name]
Splat == [kind |-> "splat", text |-> "*"]

Route(path, element) == [path |-> path, element |-> element]

\* <Routes> of App, in the order written.
routes ==
    << Route(<<>>, "Index"),
       Route(<< Static("marketplace") >>, "MarketPlace"),
       Route(<< Static("product"), Param("id") >>, "ProductDetail"),
       Route(<< Static("favorites") >>, "Favorites"),
       Route(<< Static("login") >>, "Login"),
       Route(<< Static("ai-assistant") >>, "AIAssistant"),
       Route(<< Splat >>, "NotFound") >>

\* Whether a route pattern matches a path: segment by segment, a parameter
\* taking any one segment and a trailing splat the rest whatever it is.
matchPath(pattern, path) ==
    IF pattern # <<>> /\ pattern[Len(pattern)] = Splat
    THEN /\ Len(path) >= Len(pattern) - 1
         /\ \A i \in 1..(Len(pattern) - 1) :
                pattern[i].kind = "param" \/ pattern[i].text = path[i]
    ELSE /\ Len(path) = Len(pattern)
         /\ \A i \in 1..Len(pattern) :
                pattern[i].kind = "param" \/ pattern[i].text = path[i]

\* The rank of a pattern: its length, more for a static segment than for a
\* parameter, less for a splat.
RECURSIVE segmentScores(_)
segmentScores(pattern) ==
    IF pattern = <<>> THEN 0
    ELSE (CASE Head(pattern).kind = "static" -> 10
            [] Head(pattern).kind = "param" -> 3
            [] OTHER -> 0 - 2)
         + segmentScores(Tail(pattern))

computeScore(pattern) == Len(pattern) + segmentScores(pattern)

\* The element of the best-ranked route that matches; the earlier route
\* wins among equals.  The splat route matches every path.
matchRoutes(path) ==
    LET matching == { i \in 1..Len(routes) : matchPath(routes[i].path, path) }
        best == CHOOSE i \in matching :
                    \A j \in matching :
                        \/ computeScore(routes[i].path) > computeScore(routes[j].path)
                        \/ /\ computeScore(routes[i].path) = computeScore(routes[j].path)
                           /\ i <= j
    IN  routes[best].element

\* A URL opened or a link followed.
navigate(path) ==
    /\ location' = path
    /\ mounted' = matchRoutes(path)
    /\ UNCHANGED nonRouteVars

\* The Sell Product link of the Marketplace header.
clickSellProduct ==
    /\ mounted = "MarketPlace"
    /\ navigate(<< "product", "create" >>)

RouteNext ==
    \/ \E path \in Paths : navigate(path)
    \/ clickSellProduct

RouteSpec == Init /\ [][RouteNext]_vars

\* C21: /product/create mounts the Create Product page, each of /,
\* /marketplace, /product/:id, /favorites, /login and /ai-assistant mounts
\* its own page, and every other path mounts the not-found page.
C21_Routing ==
    mounted =
        CASE location = <<>> -> "Index"
          [] location = << "marketplace" >> -> "MarketPlace"
          [] location = << "product", "create" >> -> "CreateProduct"
          [] Len(location) = 2 /\ location[1] = "product"
                 /\ location # << "product", "create" >> -> "ProductDetail"
          [] location = << "favorites" >> -> "Favorites"
          [] location = << "login" >> -> "Login"
          [] location = << "ai-assistant" >> -> "AIAssistant"
          [] OTHER -> "NotFound"

(***************************************************************************)
(* The AI Assistant page (frontend/src/pages/AIAssistant.tsx), in a        *)
(* browser that has webkitSpeechRecognition.                               *)
(***************************************************************************)
MaxTurns == 2         \* messages the user sends
MaxRecognitions == 2  \* recognition sessions not ended yet

AssistantTexts == {"", " ", "hello"}
Transcripts == {"show me watches"}
ImageUrls == {"data:image"}
Replies == {Undefined, "Certainly."}
AnalysisResults == {Undefined, "Rolex Submariner"}

trim(text) == IF text = " " THEN "" ELSE text

UserTurns == Cardinality({ i \in 1..Len(messages) : messages[i].isUser })

\* onChange of the text input, disabled while a turn is loading.
setInputValue(text) ==
    /\ ~isLoading
    /\ text # inputValue
    /\ inputValue' = text
    /\ assistantEvent' = [kind |-> "typed"]
    /\ UNCHANGED <<messages, isLoading, isListening, uploadedImage, assistantCalls,
                   recognitions, nonAssistantVars>>

\* reader.onload of handleImageUpload, for a file within the size limit.
imageLoaded(image) ==
    /\ uploadedImage' = image
    /\ assistantEvent' = [kind |-> "image"]
    /\ UNCHANGED <<messages, inputValue, isLoading, isListening, assistantCalls,
                   recognitions, nonAssistantVars>>

removeUploadedImage ==
    /\ uploadedImage # Null
    /\ uploadedImage' = Null
    /\ assistantEvent' = [kind |-> "image removed"]
    /\ UNCHANGED <<messages, inputValue, isLoading, isListening, assistantCalls,
                   recognitions, nonAssistantVars>>

\* handleSendMessage up to its await: an image goes to /analyze, a text to
\* /api/assistant.
handleSendMessage ==
    /\ ~((trim(inputValue) = "" /\ uploadedImage = Null) \/ isLoading)
    /\ UserTurns < MaxTurns
    /\ messages' = Append(messages,
                          Message(TRUE,
                                  IF inputValue # "" THEN inputValue
                                  ELSE "Please analyze this image",
                                  IF uploadedImage # Null THEN uploadedImage ELSE Undefined))
    /\ inputValue' = ""
    /\ uploadedImage' = Null
    /\ isLoading' = TRUE
    /\ assistantCalls' =
           Append(assistantCalls,
                  [op |-> IF uploadedImage # Null THEN "analyze" ELSE "assistant"])
    /\ assistantEvent' = [kind |-> "request"]
    /\ UNCHANGED <<isListening, recognitions, nonAssistantVars>>

\* The rest of handleSendMessage: the assistant's message and the finally
\* block.
answered_keepLoadingOnFailure(i, kind, ok, content) ==
    /\ messages' = Append(messages, Message(FALSE, content, Undefined))
    /\ isLoading' = (IF ok THEN FALSE ELSE isLoading)
    /\ assistantCalls' = Without(assistantCalls, i)
    /\ assistantEvent' = [kind |-> kind, ok |-> ok]
    /\ UNCHANGED <<inputValue, isListening, uploadedImage, recognitions, nonAssistantVars>>

answered(i, kind, ok, content) ==
    /\ messages' = Append(messages, Message(FALSE, content, Undefined))
    /\ isLoading' = FALSE
    /\ assistantCalls' = Without(assistantCalls, i)
    /\ assistantEvent' = [kind |-> kind, ok |-> ok]
    /\ UNCHANGED <<inputValue, isListening, uploadedImage, recognitions, nonAssistantVars>>

\* analyzePlantImage has returned: it turns a failure into a text itself.
analyzed(i, ok, result) ==
    /\ assistantCalls[i].op = "analyze"
    /\ answered(i, "analyzed", ok,
                IF ~ok THEN "Image analysis failed."
                ELSE IF ~Truthy(result) THEN "No prediction result."
                ELSE result)

\* fetch of /api/assistant and response.json() have resolved ...
assistantReplied(i, reply) ==
    /\ assistantCalls[i].op = "assistant"
    /\ answered(i, "replied", TRUE,
                OrElse(reply, "Sorry, I couldn't get a response from the AI at this time."))

\* ... or one of them has rejected.
assistantFailed(i) ==
    /\ assistantCalls[i].op = "assistant"
    /\ answered(i, "replied", FALSE, "An error occurred while communicating with the AI.")

\* The microphone button: a new recognition object is started at each click.
handleVoiceInput ==
    /\ Len(recognitions) < MaxRecognitions
    /\ recognitions' = Append(recognitions, "listening")
    /\ isListening' = TRUE
    /\ assistantEvent' = [kind |-> "listening"]
    /\ UNCHANGED <<messages, inputValue, isLoading, uploadedImage, assistantCalls,
                   nonAssistantVars>>

\* The events of a session: result or error while it listens, then end.
onresult(session, transcript) ==
    /\ recognitions[session] = "listening"
    /\ recognitions' = [recognitions EXCEPT ![session] = "result"]
    /\ inputValue' = transcript
    /\ isListening' = FALSE
    /\ assistantEvent' = [kind |-> "voice result"]
    /\ UNCHANGED <<messages, isLoading, uploadedImage, assistantCalls, nonAssistantVars>>

onerror(session) ==
    /\ recognitions[session] = "listening"
    /\ recognitions' = [recognitions EXCEPT ![session] = "error"]
    /\ isListening' = FALSE
    /\ assistantEvent' = [kind |-> "voice error"]
    /\ UNCHANGED <<messages, inputValue, isLoading, uploadedImage, assistantCalls,
                   nonAssistantVars>>

onend(session) ==
    /\ recognitions' = Without(recognitions, session)
    /\ isListening' = FALSE
    /\ assistantEvent' = [kind |-> "voice end"]
    /\ UNCHANGED <<messages, inputValue, isLoading, uploadedImage, assistantCalls,
                   nonAssistantVars>>

TurnNext ==
    \/ \E text \in AssistantTexts : setInputValue(text)
    \/ \E image \in ImageUrls : imageLoaded(image)
    \/ removeUploadedImage
    \/ handleSendMessage
    \/ \E i \in 1..Len(assistantCalls), ok \in BOOLEAN, result \in AnalysisResults :
           analyzed(i, ok, result)
    \/ \E i \in 1..Len(assistantCalls), reply \in Replies : assistantReplied(i, reply)
    \/ \E i \in 1..Len(assistantCalls) : assistantFailed(i)

VoiceNext ==
    \/ handleVoiceInput
    \/ \E session \in 1..Len(recognitions), transcript \in Transcripts :
           onresult(session, transcript)
    \/ \E session \in 1..Len(recognitions) : onerror(session)
    \/ \E session \in 1..Len(recognitions) : onend(session)

AssistantNext == TurnNext \/ VoiceNext

AssistantSpec == Init /\ [][AssistantNext]_vars

\* C24: at most one speech-recognition session of the AI Assistant page is
\* active (started and not ended) at any time.
C24_OneListeningSession == Len(recognitions) <= 1

(***************************************************************************)
(* The loading indicators of the pages.  The areas share no state, so a    *)
(* behaviour here uses one of them: the product list of the Marketplace,   *)
(* its chat popup, the Create Product page or the AI Assistant's turns.    *)
(* Every request sent is answered or fails in the end: the client's        *)
(* timeout guard sees to it for the calls that go through apiClient.       *)
(***************************************************************************)
\* The indicators do not depend on what an answer holds: one successful
\* answer of each kind is enough here.
SimpleResponses == { ChatResponse("from response", Undefined, Undefined, Undefined) }

productsSettled ==
    \E i \in 1..Len(marketCalls) :
        \/ \E items \in BackendAnswers(marketCalls[i].filters) :
               initialLoaded(i, TRUE, items, 1) \/ fetched(i, TRUE, items, 1)
        \/ initialLoaded(i, FALSE, <<>>, 1)
        \/ fetched(i, FALSE, <<>>, 1)
        \/ \E ok \in BOOLEAN : deleted(i, ok)

chatSettled ==
    \E i \in 1..Len(chatCalls) :
        \/ \E response \in SimpleResponses : chatReplied(i, response)
        \/ chatFailed(i)

createSettled ==
    \E i \in 1..Len(createCalls) :
        \/ loadCategories(i)
        \/ \E ok \in BOOLEAN : created(i, ok)

turnSettled ==
    \E i \in 1..Len(assistantCalls) :
        \/ \E ok \in BOOLEAN, result \in AnalysisResults : analyzed(i, ok, result)
        \/ \E reply \in Replies : assistantReplied(i, reply)
        \/ assistantFailed(i)

ProductsInUse == ChatInit /\ CreateInit /\ AssistantInit
ChatInUse == MarketInit /\ CreateInit /\ AssistantInit
CreateInUse == MarketInit /\ ChatInit /\ AssistantInit
TurnsInUse == MarketInit /\ ChatInit /\ CreateInit

LoadNext ==
    \/ /\ ProductsInUse
       /\ \/ \E value \in CategoryChoices : setSelectedCategory(value)
          \/ handleSearch
          \/ products # <<>> /\ clickDelete(1)
          \/ products # <<>> /\ clickConfirm(1)
          \/ productsSettled
    \/ /\ ChatInUse
       /\ \/ toggleChat
          \/ closeChat
          \/ \E text \in ChatTexts : setChatInput(text)
          \/ sendChatMessage
          \/ \E text \in QuickActionTexts : selectQuickAction(text)
          \/ chatSettled
    \/ /\ CreateInUse
       /\ \/ setFormData("name", "Watch")
          \/ setFormData("price", "19.99")
          \/ submitForm
          \/ clickCreateProduct
          \/ createSettled
    \/ /\ TurnsInUse
       /\ \/ \E text \in AssistantTexts : setInputValue(text)
          \/ \E image \in ImageUrls : imageLoaded(image)
          \/ handleSendMessage
          \/ turnSettled

LoadFairness ==
    /\ WF_vars(ProductsInUse /\ productsSettled)
    /\ WF_vars(ChatInUse /\ chatSettled)
    /\ WF_vars(CreateInUse /\ createSettled)
    /\ WF_vars(TurnsInUse /\ turnSettled)

LoadSpec == Init /\ [][LoadNext]_vars /\ LoadFairness

\* The requests of each kind that are in flight, and the states in which
\* none is and the indicator is off.
FetchInFlight == \E i \in 1..Len(marketCalls) : marketCalls[i].op \in {"initial", "fetch"}
CategoryLoadInFlight == \E i \in 1..Len(createCalls) : createCalls[i].op = "categories"
CreationInFlight == \E i \in 1..Len(createCalls) : createCalls[i].op = "create"

ProductsQuiet == ~FetchInFlight /\ ~loadingProducts
ChatQuiet == chatCalls = <<>> /\ ~chatLoading
TurnsQuiet == assistantCalls = <<>> /\ ~isLoading
CategoriesQuiet == ~CategoryLoadInFlight /\ ~loadingCategories
CreationQuiet == navigated \/ (~CreationInFlight /\ ~loading)

FetchCompleted == marketEvent.kind \in {"initialLoaded", "fetched"}
ChatCompleted == chatEvent.kind \in {"reply", "failed"}
TurnCompleted == assistantEvent.kind \in {"analyzed", "replied"}
CategoriesCompleted == createEvent.kind = "categories"
CreationCompleted == createEvent.kind = "created"

C22_State ==
    /\ ~FetchInFlight => ~loadingProducts
    /\ chatCalls = <<>> => ~chatLoading
    /\ assistantCalls = <<>> => ~isLoading
    /\ ~CategoryLoadInFlight => ~loadingCategories
    /\ ~CreationInFlight => ~loading

C22_Live ==
    /\ FetchCompleted ~> ProductsQuiet
    /\ ChatCompleted ~> ChatQuiet
    /\ TurnCompleted ~> TurnsQuiet
    /\ CategoriesCompleted ~> CategoriesQuiet
    /\ CreationCompleted ~> CreationQuiet

\* No step adds a request to those in flight.
NoRequestStarted ==
    /\ Len(marketCalls') <= Len(marketCalls)
    /\ Len(chatCalls') <= Len(chatCalls)
    /\ Len(createCalls') <= Len(createCalls)
    /\ Len(assistantCalls') <= Len(assistantCalls)

\* C22 as stated: in every state where no request of a kind is in flight
\* its loading flag is false, and every request that completes is eventually
\* followed by such a state.
C22_Original == [](C22_State) /\ C22_Live

\* C22: in every state where no request of a kind is in flight (product
\* fetch, chat turn, assistant turn, category load, product creation) its
\* loading flag is false; and if from some point on no request is started,
\* every request that completes, successfully or not, is eventually followed
\* by such a state (for a creation: or by the page being left).
C22_LoadingCleared ==
    /\ [](C22_State)
    /\ <>[][NoRequestStarted]_vars => C22_Live

\* A turn of the assistant has failed and its indicator is off.
C22_Witness ==
    /\ assistantEvent.kind = "replied"
    /\ ~assistantEvent.ok
    /\ assistantCalls = <<>>
    /\ ~isLoading

====
